---- MODULE Spec2Model ----
(***************************************************************************)
(* A model of passwd.tproj/od_passwd.c: od_passwd() and the helpers it     *)
(* calls (is_singleuser, load_DirectoryServicesLocal, show_error).         *)
(*                                                                         *)
(* The program is one sequential function.  Each action below is the       *)
(* stretch of od_passwd() around one call into the environment (the        *)
(* Open Directory library, the kernel, the terminal); the environment's    *)
(* answer is the action's nondeterministic input.                          *)
(*                                                                         *)
(* C strings and CFStrings are TLA+ strings; the null pointer is NULL.     *)
(***************************************************************************)
EXTENDS Integers, Sequences, FiniteSets, TLC

NULL == "<NULL>"

\* A byte string that is not valid UTF-8 (for instance the single byte 0xff).
BadBytes == "\\xff"

\* ------------------------------------------------------------------------
\* Bounds of the model.

\* The prompt log records the first MaxLog prompts; the confirmation loop
\* itself is not bounded.
MaxLog == 5

\* ------------------------------------------------------------------------
\* Input domains.

UserNames == {NULL, "bob", BadBytes}
AuthNames == {NULL, "bob", "admin"}
Locations == {NULL, "/Local/Default", "/LDAPv3/srv"}
Uids      == {0, 501}

\* First value of the record's meta-node-location attribute, when it has one.
NodeLocations == {"/Local/Default", "/LDAPv3/srv", "/Local"}

\* What getpass() can hand back: NULL, or the typed bytes.
Responses == {NULL, "", "a", "b", BadBytes}

\* Error codes, named after the call that produced them.
kODErrorSessionDaemonNotRunning == "kODErrorSessionDaemonNotRunning"
SessionErrors == {kODErrorSessionDaemonNotRunning, "kODErrorSessionOther"}

\* ------------------------------------------------------------------------
\* Pure helpers.

\* CFStringCreateWithCString(NULL, cstr, kCFStringEncodingUTF8): the string's
\* characters, or NULL when the bytes are not valid UTF-8.
CFStringCreateWithCString(cstr) ==
    IF cstr = BadBytes THEN NULL ELSE cstr

strlen(p) == Len(p)

\* CFStringCompareWithOptions(loc, CFSTR("/Local/"), CFRangeMake(0, 7), 0)
\* == kCFCompareEqualTo: the first seven characters of loc, compared
\* literally.  A string shorter than the range has no seven characters to
\* match.
PrefixLen == 7
HasLocalPrefix(loc) ==
    /\ Len(loc) >= PrefixLen
    /\ SubSeq(loc, 1, PrefixLen) = "/Local/"

\* A CFArrayRef: the null pointer, or an array of items.
NullArray == [null |-> TRUE, items |-> << >>]
Array(xs) == [null |-> FALSE, items |-> xs]

MutPickSupplied(vals, loc) ==
    IF loc # NULL THEN loc
    ELSE IF ~vals.null /\ Len(vals.items) > 0 THEN vals.items[1] ELSE loc
\* Line 216: the location the trust check uses.
PickLocation(vals, loc) ==
    IF ~vals.null /\ Len(vals.items) > 0 THEN vals.items[1] ELSE loc

MutNeedsAuthAnd(master, loc) == ~master /\ ~HasLocalPrefix(loc)
MutNeedsAuthEq(master, loc) == ~master \/ HasLocalPrefix(loc)
\* Line 223 (loc is not NULL here; see Values).
NeedsAuth(master, loc) == ~master \/ ~HasLocalPrefix(loc)

\* Lines 227-231: the label of the authentication prompt.
AuthPrompt(self, an) ==
    IF self THEN "Old password:" ELSE "Password for " \o an \o ":"

MutSingleUserOnFailure(sysctlOk, su) == IF ~sysctlOk THEN 1 ELSE su
\* is_singleuser(): 0 when sysctlbyname fails, else the flag's value.
is_singleuser(sysctlOk, su) == IF ~sysctlOk THEN 0 ELSE su

\* Line 115: WIFEXITED(status) && WEXITSTATUS(status) == EXIT_SUCCESS.
\* A wait status is <<"exited", code>> or <<"signaled", sig>>.
EXIT_SUCCESS == 0
MutLoadResultAnyExit(status) == status[1] = "exited"
LoadResult(status) == status[1] = "exited" /\ status[2] = EXIT_SUCCESS

\* ------------------------------------------------------------------------
\* State.

VARIABLES
    uname, locn, aname, uid,    \* arguments of od_passwd and getuid()
    odClearsError,              \* whether the library resets *error on success
    pc,                         \* position in od_passwd
    master_mode, change_pass_on_self,
    error, username, location, authname,
    session, node, rec, oldpass, newpass,
    values, needs_auth,
    outcome,                    \* how the run ended
    calls,                      \* library and system calls made, in order
    prompts, lastPrompt, resp,  \* getpass() prompts and the last response
    out, shown,                 \* last line on stdout; last message on stderr
    released,                   \* handles passed to CFRelease, in order
    interrupted,                \* waitpid() has returned EINTR
    buf,                        \* the bytes in getpass()'s buffer
    orphaned                    \* a newpass was overwritten unreleased

vars == << uname, locn, aname, uid, odClearsError, pc, master_mode,
           change_pass_on_self, error, username, location, authname,
           session, node, rec, oldpass, newpass, values, needs_auth,
           outcome, calls, prompts, lastPrompt, resp, out, shown,
           released, interrupted, buf, orphaned >>

inputs == << uname, locn, uid, odClearsError >>
strs   == << username, location, authname >>
handles == << session, node, rec, released >>
passes == << oldpass, newpass >>
tty    == << prompts, lastPrompt, resp >>
mem    == << buf, orphaned >>

Running == [kind |-> "running", value |-> 0, line |-> 0]
Return(v, ln) == [kind |-> "return", value |-> v, line |-> ln]
Exit(v, ln)   == [kind |-> "exit", value |-> v, line |-> ln]

Init ==
    /\ uname \in UserNames
    /\ locn \in Locations
    /\ aname \in AuthNames
    /\ uid \in Uids
    /\ odClearsError \in BOOLEAN
    /\ pc = "entry"
    /\ master_mode = FALSE
    /\ change_pass_on_self = FALSE
    /\ error = NULL
    /\ username = NULL
    /\ location = NULL
    /\ authname = NULL
    /\ session = NULL
    /\ node = NULL
    /\ rec = NULL
    /\ oldpass = NULL
    /\ newpass = NULL
    /\ values = NullArray
    /\ needs_auth = FALSE
    /\ outcome = Running
    /\ calls = << >>
    /\ prompts = << >>
    /\ lastPrompt = NULL
    /\ resp = NULL
    /\ out = NULL
    /\ shown = NULL
    /\ released = << >>
    /\ interrupted = FALSE
    /\ buf = ""
    /\ orphaned = FALSE

\* What a library call leaves in `error`: the error it reports, or, when it
\* reports none, either the previous value or NULL.
ErrAfter(callErr) ==
    IF callErr # NULL THEN callErr
    ELSE IF odClearsError THEN NULL ELSE error

\* show_error(e) prints e when it is not NULL and nothing otherwise.
ShowError(e) == IF e # NULL THEN e ELSE shown

Log(p) == IF Len(prompts) < MaxLog THEN Append(prompts, p) ELSE prompts

\* ------------------------------------------------------------------------
\* Lines 132-157: argument checks and conversions.

MutAbortExit1(ln) == Exit(1, ln)
\* "return -1" at lines 133, 156, 181 and 208.
Abort(ln) == Return(-1, ln)

Entry ==
    /\ pc = "entry"
    /\ UNCHANGED << inputs, error, handles, passes, values, needs_auth,
                    calls, tty, out, shown, interrupted, mem >>
    /\ IF uname = NULL
       THEN /\ pc' = "done"
            /\ outcome' = Abort(133)
            /\ UNCHANGED << aname, master_mode, change_pass_on_self, strs >>
       ELSE /\ aname' = (IF aname = NULL THEN uname ELSE aname)
            /\ master_mode' = (uid = 0)
            /\ change_pass_on_self' = (aname' = uname)
            /\ location' = (IF locn # NULL THEN CFStringCreateWithCString(locn)
                            ELSE NULL)
            /\ authname' = CFStringCreateWithCString(aname')
            /\ username' = CFStringCreateWithCString(uname)
            /\ IF username' = NULL
               THEN pc' = "done" /\ outcome' = Abort(156)
               ELSE pc' = "session" /\ UNCHANGED outcome

\* ------------------------------------------------------------------------
\* Lines 162-163: the first ODSessionCreate and the test that follows it.

DaemonNotRunning(s, e) ==
    s = NULL /\ e # NULL /\ e = kODErrorSessionDaemonNotRunning

SessionCreate ==
    /\ pc = "session"
    /\ \E r \in {"ok", "fail"} \cup SessionErrors :
          /\ session' = (IF r = "ok" THEN "session" ELSE NULL)
          /\ error' = ErrAfter(IF r \in SessionErrors THEN r ELSE NULL)
          /\ calls' = Append(calls, <<"ODSessionCreate", NULL, r>>)
          /\ pc' = (IF DaemonNotRunning(session', error')
                    THEN "singleuser" ELSE "node")
    /\ UNCHANGED << inputs, aname, master_mode, change_pass_on_self, strs,
                    node, rec, released, passes, values, needs_auth,
                    outcome, tty, out, shown, interrupted, mem >>

\* Lines 180-181: the else branch of line 167.
GiveUp ==
    /\ shown' = ShowError(error)
    /\ outcome' = Abort(181)
    /\ pc' = "done"

\* Line 167, first operand: is_singleuser() (lines 77-86).
SingleUser ==
    /\ pc = "singleuser"
    /\ \E sysctlOk \in BOOLEAN, su \in {0, 1} :
          /\ calls' = Append(calls, <<"sysctlbyname", "kern.singleuser",
                                      sysctlOk, su>>)
          /\ IF is_singleuser(sysctlOk, su) # 0
             THEN pc' = "fork" /\ UNCHANGED << shown, outcome >>
             ELSE GiveUp
    /\ UNCHANGED << inputs, aname, master_mode, change_pass_on_self, strs,
                    error, handles, passes, values, needs_auth, tty, out,
                    interrupted, mem >>

\* Lines 93-98: load_DirectoryServicesLocal() up to the fork.  The child
\* (lines 99-104) only execs launchctl; the parent sees its wait status.
Fork ==
    /\ pc = "fork"
    /\ \E pid \in {-1, 100} :
          /\ calls' = Append(calls, <<"fork", pid>>)
          /\ IF pid = -1
             THEN GiveUp
             ELSE pc' = "wait" /\ UNCHANGED << shown, outcome >>
    /\ UNCHANGED << inputs, aname, master_mode, change_pass_on_self, strs,
                    error, handles, passes, values, needs_auth, tty, out,
                    interrupted, mem >>

WaitStatuses == { <<"exited", 0>>, <<"exited", 1>>, <<"signaled", 9>> }
\* waitpid() returning -1, with errno.
WaitErrors == { <<"error", "EINTR">>, <<"error", "ECHILD">> }

\* Lines 106-115: wait for the child; line 167 tests the result.
Wait ==
    /\ pc = "wait"
    /\ \E r \in WaitErrors \cup WaitStatuses :
          IF r = <<"error", "EINTR">>
          THEN /\ interrupted' = TRUE
               /\ UNCHANGED << pc, shown, outcome, calls >>
          ELSE /\ UNCHANGED interrupted
               /\ calls' = Append(calls, <<"waitpid", r>>)
               /\ IF r \notin WaitErrors /\ LoadResult(r)
                  THEN pc' = "session2" /\ UNCHANGED << shown, outcome >>
                  ELSE GiveUp
    /\ UNCHANGED << inputs, aname, master_mode, change_pass_on_self, strs,
                    error, handles, passes, values, needs_auth, tty, out,
                    mem >>

\* Lines 168-178: the retry against the local database.
LocalPath == "/var/db/dslocal"
SessionRetry ==
    /\ pc = "session2"
    /\ \E optsOk \in BOOLEAN, r \in {"ok", "fail"} \cup SessionErrors :
          IF optsOk
          THEN /\ session' = (IF r = "ok" THEN "session" ELSE NULL)
               /\ error' = ErrAfter(IF r \in SessionErrors THEN r ELSE NULL)
               /\ calls' = Append(calls, <<"ODSessionCreate", LocalPath, r>>)
          ELSE UNCHANGED << session, error, calls >>
    /\ location' = (IF location = NULL THEN "/Local/Default" ELSE location)
    /\ pc' = "node"
    /\ UNCHANGED << inputs, aname, master_mode, change_pass_on_self,
                    username, authname, node, rec, released, passes, values,
                    needs_auth, outcome, tty, out, shown, interrupted, mem >>

\* ------------------------------------------------------------------------
\* Lines 189-195: open the node, release the session.

NodeCreate ==
    /\ pc = "node"
    /\ \E r \in {"ok", "fail", "kODErrorNode"} :
          /\ node' = (IF r = "ok" THEN "node" ELSE NULL)
          /\ error' = ErrAfter(IF r = "kODErrorNode" THEN r ELSE NULL)
          /\ calls' = Append(calls,
                  IF location # NULL
                  THEN <<"ODNodeCreateWithName", session, location, r>>
                  ELSE <<"ODNodeCreateWithNodeType", session,
                         "kODNodeTypeAuthentication", r>>)
    /\ released' = (IF session # NULL THEN Append(released, "session")
                    ELSE released)
    /\ pc' = "record"
    /\ UNCHANGED << inputs, aname, master_mode, change_pass_on_self, strs,
                    session, rec, passes, values, needs_auth, outcome, tty,
                    out, shown, interrupted, mem >>

\* Lines 197-209: fetch the record, release the node.
RecordCopy ==
    /\ pc = "record"
    /\ IF node # NULL
       THEN /\ \E r \in {"ok", "fail", "kODErrorRecord"} :
                  /\ rec' = (IF r = "ok" THEN "rec" ELSE NULL)
                  /\ error' = ErrAfter(IF r = "kODErrorRecord" THEN r
                                       ELSE NULL)
                  /\ calls' = Append(calls,
                                     <<"ODNodeCopyRecord", username, r>>)
            /\ released' = Append(released, "node")
       ELSE UNCHANGED << rec, error, calls, released >>
    /\ IF rec' = NULL
       THEN /\ shown' = (IF error' # NULL THEN ShowError(error')
                         ELSE "Unknown user name")
            /\ outcome' = Abort(208)
            /\ pc' = "done"
       ELSE pc' = "values" /\ UNCHANGED << shown, outcome >>
    /\ UNCHANGED << inputs, aname, master_mode, change_pass_on_self, strs,
                    session, node, passes, values, needs_auth, tty, out,
                    interrupted, mem >>

\* The process is killed inside a library call handed a null pointer.
Crash(ln) == [kind |-> "signal", value |-> 5, line |-> ln]

\* Lines 214-223: read the record's location, decide needs_auth.
\* CFStringCompareWithOptions is reached only when master_mode holds (the
\* || short-circuits); with a NULL location it does not return.
Values ==
    /\ pc = "values"
    /\ \E v \in {NullArray, Array(<< >>)}
                  \cup { Array(<<l>>) : l \in NodeLocations },
          failed \in BOOLEAN :
          /\ failed => v = NullArray
          /\ values' = v
          /\ error' = ErrAfter(IF failed THEN "kODErrorValues" ELSE NULL)
    /\ calls' = Append(calls, <<"ODRecordCopyValues",
                                "kODAttributeTypeMetaNodeLocation">>)
    /\ location' = PickLocation(values', location)
    /\ out' = "Changing password for " \o uname \o "."
    /\ IF master_mode /\ location' = NULL
       THEN /\ pc' = "done"
            /\ outcome' = Crash(223)
            /\ UNCHANGED needs_auth
       ELSE /\ needs_auth' = NeedsAuth(master_mode, location')
            /\ pc' = (IF needs_auth' THEN "oldpass" ELSE "newpass")
            /\ UNCHANGED outcome
    /\ UNCHANGED << inputs, aname, master_mode, change_pass_on_self,
                    username, authname, handles, passes, tty, shown,
                    interrupted, mem >>

\* ------------------------------------------------------------------------
\* Lines 235 and 243: memset(p, 0, strlen(p)) leaves the empty string in the
\* buffer.
MutNotZeroed(p) == p
Zeroed(p) == ""

\* Lines 225-237: the authentication prompt.

OldPass ==
    /\ pc = "oldpass"
    /\ \E p \in Responses :
          /\ resp' = p
          /\ oldpass' = (IF p # NULL THEN CFStringCreateWithCString(p)
                         ELSE oldpass)
          /\ buf' = (IF p # NULL THEN Zeroed(p) ELSE buf)
    /\ lastPrompt' = AuthPrompt(change_pass_on_self, aname)
    /\ prompts' = Log(lastPrompt')
    /\ pc' = "newpass"
    /\ UNCHANGED << inputs, aname, master_mode, change_pass_on_self, strs,
                    error, handles, newpass, values, needs_auth, outcome,
                    calls, out, shown, interrupted, orphaned >>

\* Line 241: the response counts as a new password.
MutGiven(p) == p # NULL
Given(p) == p # NULL /\ strlen(p) > 0

\* Lines 240-247: the new password, or the end of the run.
NewPass ==
    /\ pc = "newpass"
    /\ lastPrompt' = "New password:"
    /\ prompts' = Log(lastPrompt')
    /\ \E p \in Responses :
          /\ resp' = p
          /\ IF Given(p)
             THEN /\ newpass' = CFStringCreateWithCString(p)
                  /\ orphaned' = (orphaned \/ newpass # NULL)
                  /\ buf' = Zeroed(p)
                  /\ pc' = "retype"
                  /\ UNCHANGED << out, outcome >>
             ELSE /\ out' = "Password unchanged."
                  /\ outcome' = Exit(0, 246)
                  /\ pc' = "done"
                  /\ buf' = (IF p # NULL THEN p ELSE buf)
                  /\ UNCHANGED << newpass, orphaned >>
    /\ UNCHANGED << inputs, aname, master_mode, change_pass_on_self, strs,
                    error, handles, oldpass, values, needs_auth, calls,
                    shown, interrupted >>

\* Lines 249-259: the confirmation.  CFEqual stops the process when its
\* first argument is NULL.
Retype ==
    /\ pc = "retype"
    /\ lastPrompt' = "Retype new password:"
    /\ prompts' = Log(lastPrompt')
    /\ \E p \in Responses :
          /\ resp' = p
          /\ buf' = (IF p # NULL THEN p ELSE buf)
          /\ IF p = NULL
             THEN pc' = "newpass" /\ UNCHANGED << out, outcome >>
             ELSE LET verify == CFStringCreateWithCString(p) IN
                  IF verify = NULL
                  THEN /\ out' = "Mismatch; try again, EOF to quit."
                       /\ pc' = "newpass"
                       /\ UNCHANGED outcome
                  ELSE IF newpass = NULL
                  THEN /\ pc' = "done"
                       /\ outcome' = Crash(252)
                       /\ UNCHANGED out
                  ELSE IF newpass # verify
                  THEN /\ out' = "Mismatch; try again, EOF to quit."
                       /\ pc' = "newpass"
                       /\ UNCHANGED outcome
                  ELSE pc' = "commit" /\ UNCHANGED << out, outcome >>
    /\ UNCHANGED << inputs, aname, master_mode, change_pass_on_self, strs,
                    error, handles, passes, values, needs_auth, calls,
                    shown, interrupted, orphaned >>

\* ------------------------------------------------------------------------
\* Lines 262-285 and 313: the commit and what follows it.

MutAuthItemsSwapped(user, new, auth, old) == << auth, new, user, old >>
\* Line 263: the items of the extended call.
AuthItems(user, new, auth, old) == << user, new, auth, old >>

MutCommitCallOldIsNew(na, user, new, auth, old) ==
    IF na
    THEN << "ODRecordSetNodeCredentialsExtended",
            AuthItems(user, new, auth, new) >>
    ELSE << "ODRecordChangePassword", new, new >>
\* Lines 262-277: which call is made, and with what.
CommitCall(na, user, new, auth, old) ==
    IF na
    THEN << "ODRecordSetNodeCredentialsExtended",
            AuthItems(user, new, auth, old) >>
    ELSE << "ODRecordChangePassword", old, new >>

\* Lines 279-285, 313.
Finish(e) == IF e # NULL THEN Exit(1, 281) ELSE Return(0, 313)

\* CFArrayCreate with kCFTypeArrayCallBacks retains each item and stops the
\* process on a NULL one (line 264).
Commit ==
    /\ pc = "commit"
    /\ pc' = "done"
    /\ IF needs_auth /\ \E i \in 1..4 :
            AuthItems(username, newpass, authname, oldpass)[i] = NULL
       THEN /\ outcome' = Crash(264)
            /\ UNCHANGED << error, calls, shown, released >>
       ELSE /\ calls' = Append(calls, CommitCall(needs_auth, username,
                                       newpass, authname, oldpass))
            /\ \E failed \in BOOLEAN :
                  error' = ErrAfter(IF failed THEN "kODErrorCommit"
                                    ELSE NULL)
            /\ outcome' = Finish(error')
            /\ shown' = ShowError(error')
            /\ released' =
                 (IF error' # NULL THEN released
                  ELSE released
                       \o (IF oldpass # NULL THEN <<"oldpass">> ELSE << >>)
                       \o (IF newpass # NULL THEN <<"newpass">> ELSE << >>))
    /\ UNCHANGED << inputs, aname, master_mode, change_pass_on_self, strs,
                    session, node, rec, passes, values, needs_auth, tty,
                    out, interrupted, mem >>

\* ------------------------------------------------------------------------

Next ==
    \/ Entry
    \/ SessionCreate
    \/ SingleUser
    \/ Fork
    \/ Wait
    \/ SessionRetry
    \/ NodeCreate
    \/ RecordCopy
    \/ Values
    \/ OldPass
    \/ NewPass
    \/ Retype
    \/ Commit

Spec == Init /\ [][Next]_vars

\* ------------------------------------------------------------------------
\* Vocabulary of the properties.

Range(f) == { f[i] : i \in DOMAIN f }

CallsTo(names) == { i \in DOMAIN calls : calls[i][1] \in names }

MutationCalls == {"ODRecordSetNodeCredentialsExtended",
                  "ODRecordChangePassword"}
Mutations == CallsTo(MutationCalls)

Terminated == pc = "done" /\ ~ENABLED Next

\* The trust check of line 223 has been made and the run went on to the
\* prompts.
AfterTrust ==
    \/ pc \in {"oldpass", "newpass", "retype", "commit"}
    \/ pc = "done" /\ lastPrompt # NULL

\* The confirmation equalled the new password (line 257 was reached).
Matched ==
    /\ lastPrompt = "Retype new password:"
    /\ pc = "commit" \/ (pc = "done" /\ outcome # Crash(252))

\* The "New password:" prompt has just been answered with nothing.
EmptyNewPassword ==
    lastPrompt = "New password:" /\ (resp = NULL \/ resp = "")

\* C1: whenever the "New password:" prompt returns an empty response or
\* end-of-input, on the first or any later iteration, the program prints
\* "Password unchanged.", terminates with status 0, and no directory
\* mutation call (ODRecordSetNodeCredentialsExtended, ODRecordChangePassword)
\* has been made or can still be made.
C1_EmptyNewPasswordDeclines ==
    EmptyNewPassword =>
        /\ Terminated
        /\ outcome.kind = "exit" /\ outcome.value = 0
        /\ out = "Password unchanged."
        /\ Mutations = {}

\* C1 witness: the empty response comes on a later iteration, after a
\* mismatch, and the run has ended.
C1_Witness ==
    /\ EmptyNewPassword
    /\ resp = ""
    /\ pc = "done"
    /\ Cardinality({ i \in DOMAIN prompts : prompts[i] = "New password:" }) >= 2

\* C2: the collection loop is left only on a confirmation equal to the
\* non-empty new password, or on an empty or end-of-input response to
\* "New password:"; after a confirmation that differs from the new password
\* the program does not exit and the next prompt is "New password:", which
\* a non-empty response has followed by "Retype new password:".
\* (At pc = "retype" the last response, resp, is the new password as typed.)
C2_LoopLeftOnlyOnMatchOrEmpty ==
    [][ /\ pc = "newpass" =>
             /\ lastPrompt' = "New password:"
             /\ IF resp' = NULL \/ resp' = ""
                THEN pc' = "done" /\ outcome'.kind = "exit"
                ELSE pc' = "retype" /\ outcome' = Running
        /\ pc = "retype" =>
             /\ lastPrompt' = "Retype new password:"
             /\ resp' # resp => pc' = "newpass" /\ outcome' = Running
             /\ pc' # "newpass" =>
                   /\ pc' = "commit"
                   /\ resp' = resp
                   /\ resp # ""
      ]_vars

\* ------------------------------------------------------------------------

IsOldPrompt(p) == p = "Old password:"

\* C3: in every run where the caller is not root and the authenticating name
\* equals the target username, and which reaches password collection, the
\* "Old password:" prompt is issued, and before the first "New password:"
\* prompt, whatever the record's location.
C3_OldPasswordFirst ==
    (uid # 0 /\ aname = uname /\ AfterTrust) =>
        /\ needs_auth
        /\ pc = "oldpass" <=> prompts = << >>
        /\ pc # "oldpass" => IsOldPrompt(prompts[1])
        /\ \A i \in DOMAIN prompts :
              prompts[i] = "New password:" =>
                 \E j \in 1..(i - 1) : IsOldPrompt(prompts[j])

\* C3 witness: a non-root caller changing their own password on a record of
\* the local node has been asked the old password and then the new one.
C3_Witness ==
    /\ uid # 0 /\ aname = uname
    /\ HasLocalPrefix(location)
    /\ Len(prompts) >= 2
    /\ IsOldPrompt(prompts[1])
    /\ prompts[2] = "New password:"

\* C4: in every run where the caller is root, the authenticating name equals
\* the target username and the record's resolved location starts with
\* "/Local/", no old-password prompt is ever issued: the only prompts are
\* "New password:" and "Retype new password:", and on a match
\* ODRecordChangePassword is called with a NULL old password and the
\* confirmed new password.
C4_RootLocalNoOldPrompt ==
    (uid = 0 /\ aname = uname /\ AfterTrust /\ HasLocalPrefix(location)) =>
        /\ pc # "oldpass"
        /\ lastPrompt \in {NULL, "New password:", "Retype new password:"}
        /\ Range(prompts) \subseteq {"New password:", "Retype new password:"}
        /\ CallsTo({"ODRecordSetNodeCredentialsExtended"}) = {}
        /\ \A i \in Mutations :
              /\ calls[i][2] = NULL
              /\ calls[i][3] = resp
              /\ lastPrompt = "Retype new password:"
        /\ (pc = "done" /\ Matched) => Mutations # {}

\* C4 witness: root, own password, local record; after one mismatch the
\* passwords matched and the change was submitted.
C4_Witness ==
    /\ uid = 0 /\ aname = uname
    /\ HasLocalPrefix(location)
    /\ Len(prompts) >= 4
    /\ Mutations # {}
    /\ pc = "done"

\* ------------------------------------------------------------------------
\* What the call log says about session establishment.

SessionCreates == CallsTo({"ODSessionCreate"})
NodeCreates == CallsTo({"ODNodeCreateWithName", "ODNodeCreateWithNodeType"})
RecordCopies == CallsTo({"ODNodeCopyRecord"})
ForkCalls == CallsTo({"fork"})
Children == { i \in ForkCalls : calls[i][2] # -1 }

\* The first ODSessionCreate failed with kODErrorSessionDaemonNotRunning.
FirstCreateDNR ==
    /\ Len(calls) >= 1
    /\ calls[1][1] = "ODSessionCreate"
    /\ calls[1][3] = kODErrorSessionDaemonNotRunning

\* kern.singleuser has been read: the host is in single-user mode when the
\* read succeeded and the flag is not zero.
SysctlAnswered == Len(calls) >= 2 /\ calls[2][1] = "sysctlbyname"
InSingleUser == SysctlAnswered /\ calls[2][3] /\ calls[2][4] # 0
NotSingleUser == SysctlAnswered /\ ~(calls[2][3] /\ calls[2][4] # 0)

\* The daemon load failed: fork failed, waitpid failed, or the child did
\* not exit with status 0.
LoadFailed ==
    \/ \E i \in ForkCalls : calls[i][2] = -1
    \/ \E i \in CallsTo({"waitpid"}) : calls[i][2] # <<"exited", 0>>

\* The last call of the kind named by `idx` did not succeed.
LastFailed(idx) ==
    idx # {} /\ LET i == CHOOSE k \in idx : \A j \in idx : j <= k
                IN calls[i][Len(calls[i])] # "ok"

NoUser == uname = NULL
BadUser == uname # NULL /\ CFStringCreateWithCString(uname) = NULL
GaveUpOnDaemon == FirstCreateDNR /\ (NotSingleUser \/ LoadFailed)
NoRecord == NodeCreates # {} /\ rec = NULL
Committed == Mutations # {}
CommitFailed == Committed /\ error = "kODErrorCommit"

Ended == pc = "done" /\ outcome.kind # "signal"

C8_CommitResultDecidesOutcome ==
    (pc = "done" /\ Committed) =>
        /\ CommitFailed =>
              /\ shown = "kODErrorCommit"
              /\ outcome.kind = "exit" /\ outcome.value # 0
        /\ ~CommitFailed =>
              outcome.kind = "return" /\ outcome.value = 0

\* C9: the two commit operations are mutually exclusive and chosen by
\* needs_auth alone: with needs_auth the run calls
\* ODRecordSetNodeCredentialsExtended with exactly the items (target
\* username, new password, authenticating name, old password), in that
\* order, and never ODRecordChangePassword; without it, it calls
\* ODRecordChangePassword(old, new) and never the extended call.  A non-root
\* caller with username bob and authname admin takes the extended path for
\* every node location.
C9_CommitChosenByNeedsAuth ==
    /\ Cardinality(Mutations) <= 1
    /\ \A i \in Mutations :
          IF needs_auth
          THEN /\ calls[i][1] = "ODRecordSetNodeCredentialsExtended"
               /\ calls[i][2] = << uname, resp, aname, oldpass >>
          ELSE /\ calls[i][1] = "ODRecordChangePassword"
               /\ calls[i][2] = oldpass
               /\ calls[i][3] = resp
    /\ (pc = "done" /\ Matched /\ outcome.kind # "signal") =>
          Cardinality(Mutations) = 1
    /\ (uid # 0 /\ uname = "bob" /\ aname = "admin" /\ AfterTrust) =>
          /\ needs_auth
          /\ CallsTo({"ODRecordChangePassword"}) = {}

\* C9 witness: non-root, username bob, authname admin, a record on the local
\* node: the extended call has been made.
C9_Witness ==
    /\ uid # 0 /\ uname = "bob" /\ aname = "admin"
    /\ HasLocalPrefix(location)
    /\ CallsTo({"ODRecordSetNodeCredentialsExtended"}) # {}

\* The load of the local daemon succeeded (lines 168-178 were run).
LoadSucceeded ==
    \E i \in CallsTo({"waitpid"}) : calls[i][2] = <<"exited", 0>>

\* The location od_passwd was given, or the single-user default.
SuppliedLocation ==
    IF locn # NULL THEN locn
    ELSE IF LoadSucceeded THEN "/Local/Default" ELSE NULL

\* The first value of the meta-node-location attribute when there is one,
\* the supplied location otherwise.
LocationUsed ==
    IF ~values.null /\ Len(values.items) >= 1 THEN values.items[1]
    ELSE SuppliedLocation

\* Of the locations of this model, those that start with "/Local/".
UnderLocal == {"/Local/Default"}

\* C10: needs_auth equals (caller is not root) OR (location does not start
\* with the 7-character prefix "/Local/"), for every caller privilege and
\* location, the location being the first value of the record's
\* meta-node-location attribute whenever it has one, and the supplied (or
\* single-user default) location only otherwise.
C10_NeedsAuth ==
    AfterTrust =>
        (needs_auth <=> (uid # 0 \/ LocationUsed \notin UnderLocal))

\* C10 witness: root, given a network node, but the record's attribute names
\* the local node: no re-authentication.
C10_Witness ==
    /\ AfterTrust
    /\ uid = 0
    /\ locn = "/LDAPv3/srv"
    /\ LocationUsed = "/Local/Default"
    /\ ~needs_auth

\* C10, second case: root, no value in the attribute, the supplied location
\* decides.
C10_WitnessSupplied ==
    /\ AfterTrust
    /\ uid = 0
    /\ values = Array(<< >>)
    /\ locn = "/Local/Default"
    /\ ~needs_auth

\* ------------------------------------------------------------------------

\* Session establishment (lines 162-182) is over.
SessionStageOver ==
    /\ SessionCreates # {}
    /\ pc \notin {"session", "singleuser", "fork", "wait", "session2"}

\* C11: whenever session establishment ends without a session handle (the
\* first ODSessionCreate failed for a cause other than the daemon not
\* running, or the single-user retry failed or was not performed), the error
\* has been reported and the run has ended with a failure, with no
\* node-creation call, no record lookup, no prompt and no commit.
C11_NoSessionAborts ==
    (SessionStageOver /\ session = NULL) =>
        /\ Terminated
        /\ outcome.kind \in {"return", "exit"}
        /\ outcome.value # 0
        /\ shown # NULL
        /\ NodeCreates = {}
        /\ RecordCopies = {}
        /\ lastPrompt = NULL
        /\ Mutations = {}

\* ------------------------------------------------------------------------

\* Handle h, acquired when its variable v is not NULL, was passed to
\* CFRelease.
ReleasedIfHeld(v, h) == v # NULL => h \in Range(released)

\* Every release of a came before every release of b.
ReleasedBefore(a, b) ==
    \A i, j \in DOMAIN released :
        (released[i] = a /\ released[j] = b) => i < j

\* C12: in every terminating run, each handle acquired among Session, Node
\* and Record has been released when the run ends, none is still held, and
\* the releases come in the reverse of the order of acquisition: Record
\* before Node before Session.
C12_HandlesReleasedInReverse ==
    Ended =>
        /\ ReleasedIfHeld(session, "session")
        /\ ReleasedIfHeld(node, "node")
        /\ ReleasedIfHeld(rec, "rec")
        /\ ReleasedBefore("rec", "node")
        /\ ReleasedBefore("node", "session")

\* ------------------------------------------------------------------------

\* C13: every secret read from the terminal (the old password, each new
\* password, each confirmation) is gone from its input buffer once it has
\* been converted, before the next prompt or directory call; and once the
\* commit step is over, with or without an error, every password string
\* created (oldpass, and the newpass of every iteration) has been released.
C13_SecretsZeroedAndReleased ==
    /\ buf = Zeroed(buf)
    /\ (pc = "done" /\ Committed) =>
          /\ ReleasedIfHeld(oldpass, "oldpass")
          /\ ReleasedIfHeld(newpass, "newpass")
          /\ ~orphaned

\* ------------------------------------------------------------------------

\* C14: when uname is NULL, od_passwd returns -1 before any directory
\* interaction: no session creation, no daemon load, no node or record call,
\* no prompt and no commit.
C14_NoUsernameReturnsFirst ==
    (NoUser /\ pc # "entry") =>
        /\ Terminated
        /\ outcome.kind = "return" /\ outcome.value = -1
        /\ calls = << >>
        /\ prompts = << >> /\ lastPrompt = NULL
        /\ session = NULL /\ node = NULL /\ rec = NULL
        /\ shown = NULL /\ out = NULL

\* C14 witness: called without a username, the run is over.
C14_Witness ==
    /\ NoUser
    /\ pc = "done"
    /\ outcome.line = 133

\* ------------------------------------------------------------------------

AuthPrompts == { AuthPrompt(self, aname) : self \in BOOLEAN }

\* The old password handed to the commit call numbered i.
OldPasswordArg(i) ==
    IF calls[i][1] = "ODRecordChangePassword" THEN calls[i][2]
    ELSE calls[i][2][4]

\* C15: the old-password prompt is issued at most once in a run, and only
\* before the first "New password:" prompt; after a mismatch the user is
\* asked the new password and its confirmation only, never the old password
\* again; and the old password collected that one time is the one the commit
\* call is given.
C15_OldPasswordAskedOnce ==
    [][ /\ pc = "oldpass" =>
             /\ prompts = << >> /\ lastPrompt = NULL
             /\ lastPrompt' \in AuthPrompts
             /\ oldpass' = CFStringCreateWithCString(resp')
        /\ pc # "oldpass" =>
             /\ oldpass' = oldpass
             /\ lastPrompt' # lastPrompt =>
                   lastPrompt' \in {"New password:", "Retype new password:"}
             /\ prompts' # prompts =>
                   prompts'[Len(prompts')] \notin AuthPrompts
             /\ \A i \in Mutations' \ Mutations :
                   OldPasswordArg(i)' = oldpass
      ]_vars

\* C15 witness: the old password was asked first, two confirmations did not
\* match, the third did, and the change was submitted with the old password
\* typed at the start.
C15_Witness ==
    /\ needs_auth
    /\ Len(prompts) >= 5
    /\ prompts[1] \in AuthPrompts
    /\ pc = "done"
    /\ Committed
    /\ oldpass = "b" /\ newpass = "a"
    /\ \A i \in Mutations : OldPasswordArg(i) = "b"

\* ------------------------------------------------------------------------

\* C16: whenever the extended set-credentials path is taken (needs_auth is
\* true at the commit step), the old password has been collected: the
\* old-password item of the four-element array is not NULL, whatever the
\* old-password prompt returned, end-of-input and failure included.
C16_OldPasswordCollected ==
    (needs_auth /\ (pc = "commit" \/ (pc = "done" /\ Matched))) =>
        /\ oldpass # NULL
        /\ AuthItems(username, newpass, authname, oldpass)[4] # NULL
        /\ outcome # Crash(264)

\* ------------------------------------------------------------------------

\* The new password handed to the commit call numbered i.
NewPasswordArg(i) ==
    IF calls[i][1] = "ODRecordChangePassword" THEN calls[i][3]
    ELSE calls[i][2][2]

\* C17: a mutation call (ODRecordSetNodeCredentialsExtended or
\* ODRecordChangePassword) is made at most once in a run, and only after a
\* record was fetched and the most recent "New password:" response was
\* non-empty and equal to the most recent "Retype new password:" response;
\* the new password it submits is that matched value, not one of an earlier,
\* mismatched iteration.  (newpass is the last "New password:" response,
\* converted; after the confirmation resp is the last confirmation.)
C17_OneMutationAfterMatch ==
    /\ pc = "retype" => newpass = CFStringCreateWithCString(resp)
    /\ Cardinality(Mutations) <= 1
    /\ \A i \in Mutations :
          /\ rec # NULL
          /\ \E j \in RecordCopies : j < i /\ calls[j][3] = "ok"
          /\ lastPrompt = "Retype new password:"
          /\ resp # NULL /\ strlen(resp) > 0
          /\ newpass = CFStringCreateWithCString(resp)
          /\ NewPasswordArg(i) = newpass
          /\ i = Len(calls)

\* C17 witness: "a" was confirmed wrongly, then "b" was typed twice, and "b"
\* is what was submitted.
C17_Witness ==
    /\ pc = "done"
    /\ Cardinality(Mutations) = 1
    /\ Cardinality({ i \in DOMAIN prompts : prompts[i] = "New password:" }) = 2
    /\ out = "Mismatch; try again, EOF to quit."
    /\ resp = "b"
    /\ \A i \in Mutations : NewPasswordArg(i) = "b"

\* ------------------------------------------------------------------------

\* The trust check of line 223 has been reached: a record was obtained and
\* its meta-node-location attribute was read.
AtTrustCheck == rec # NULL /\ pc # "values"

\* C18: in every run that obtains a record, the location compared with
\* "/Local/" at the trust check is defined (not NULL), also when no location
\* was supplied and ODRecordCopyValues returned no value or failed.
C18_LocationDefinedAtTrustCheck ==
    AtTrustCheck =>
        /\ location # NULL
        /\ outcome # Crash(223)

====
